---- MODULE Spec2Model ----
(***************************************************************************)
(* Model of the cineasts exporter: cineasts-cypher.go (graph output) and   *)
(* cineasts-csv.go (four CSV tables).  Both programs share the helpers,    *)
(* the file cache and the recursive discoverMovies; they differ in the     *)
(* print functions called for each movie.                                  *)
(*                                                                         *)
(* Strings are sequences of one-character strings, so that len, slicing,   *)
(* the regular-expression replacements and strconv.Atoi are computed the   *)
(* way the Go code computes them.  Numbers printed with %d are kept as     *)
(* numbers.  The descriptive movie fields (Title, Tagline, Genres,         *)
(* VoteAverage) are copied to the output and no branch reads them; they    *)
(* are left out of the movie record.                                       *)
(***************************************************************************)
EXTENDS Integers, Sequences, FiniteSets, TLC

VARIABLES
    variant,       \* which program runs: "cypher" or "csv"
    startPage,     \* argument of the outermost discoverMovies call
    totalPages,    \* total_pages the remote API reports on every discover page
    run,           \* 1: first run of the pipeline, 2: second run on the same cache
    pc,            \* "call": entering discoverMovies(pageNum); "loop": in its range loop; "done"
    pageNum,       \* argument of the current discoverMovies frame
    page,          \* the decoded DiscoverPage of the current frame
    idx,           \* position of the range loop in page.Results (1-based)
    requested,     \* page numbers passed to the discover URL, in order (this run)
    processed,     \* movies returned by getMovie in the range loop, in order (this run)
    cache,         \* the cache directory: file name -> file contents
    netCalls,      \* HTTP requests performed in this run
    personMap,     \* the set of ids with personMap[id] = true
    moviesCsv, peopleCsv, actorsCsv, directorsCsv,   \* rows written after the header
    stdout,        \* Cypher statements printed after the two index statements
    firstOut,      \* the output of run 1, kept when run 2 starts
    arg, ret       \* argument and result of a direct getBorn/getDied call

vars == <<variant, startPage, totalPages, run, pc, pageNum, page, idx, requested,
          processed, cache, netCalls, personMap, moviesCsv, peopleCsv, actorsCsv,
          directorsCsv, stdout, firstOut, arg, ret>>

----------------------------------------------------------------------------
(* Bounds of the model *)

MaxPages == 2      \* largest total_pages the remote API reports
MaxCast == 2       \* longest cast list of a movie
MaxCrew == 1       \* longest crew list of a movie
MaxDateLen == 5    \* longest date string given to getBorn/getDied directly
MaxCharLen == 3    \* longest character field in the roles specification

(* Program constants *)
SplitLimit == 100  \* regexp Split(char, 100)
YearLen == 4       \* the [0:4] slices and the length tests against 4

----------------------------------------------------------------------------
(* Strings *)

Lower == {"a","b","c","d","e","f","g","h","i","j","k","l","m",
          "n","o","p","q","r","s","t","u","v","w","x","y","z"}
Upper == {"A","B","C","D","E","F","G","H","I","J","K","L","M",
          "N","O","P","Q","R","S","T","U","V","W","X","Y","Z"}
Alpha == Lower \cup Upper
DigitVal == [c \in {"0","1","2","3","4","5","6","7","8","9"} |->
               CASE c = "0" -> 0 [] c = "1" -> 1 [] c = "2" -> 2 [] c = "3" -> 3
                 [] c = "4" -> 4 [] c = "5" -> 5 [] c = "6" -> 6 [] c = "7" -> 7
                 [] c = "8" -> 8 [] c = "9" -> 9]
Digits == DOMAIN DigitVal
QUOTE == "\""
BACKSLASH == "\\"

SeqsUpTo(S, n) == UNION {[1..k -> S] : k \in 0..n}

Range(s) == {s[i] : i \in DOMAIN s}

RECURSIVE Concat(_)
Concat(ss) == IF ss = <<>> THEN <<>> ELSE Head(ss) \o Concat(Tail(ss))

RECURSIVE Join(_, _)
Join(ss, sep) ==
    IF ss = <<>> THEN <<>>
    ELSE IF Len(ss) = 1 THEN ss[1]
    ELSE ss[1] \o sep \o Join(Tail(ss), sep)

\* s[0:n] of Go, for n <= len(s)
Slice(s, n) == SubSeq(s, 1, n)

\* regexp [^a-zA-Z] ReplaceAllString(s, replace)
safeWithReplace(s, replace) ==
    Concat([i \in DOMAIN s |-> IF s[i] \in Alpha THEN <<s[i]>> ELSE replace])

safe(s) == safeWithReplace(s, <<"_">>)

\* strings.Trim(s, cutset) for a cutset given as a set of characters
RECURSIVE TrimLeft(_, _)
TrimLeft(s, cut) ==
    IF s # <<>> /\ Head(s) \in cut THEN TrimLeft(Tail(s), cut) ELSE s
RECURSIVE TrimRight(_, _)
TrimRight(s, cut) ==
    IF s # <<>> /\ s[Len(s)] \in cut THEN TrimRight(SubSeq(s, 1, Len(s) - 1), cut) ELSE s
Trim(s, cut) == TrimRight(TrimLeft(s, cut), cut)
TrimSpace(s) == Trim(s, {" "})

\* quotes: backslashes doubled first, then quotes escaped, then wrapped
quotes(s) ==
    LET str1 == Concat([i \in DOMAIN s |->
                   IF s[i] = BACKSLASH THEN <<BACKSLASH, BACKSLASH>> ELSE <<s[i]>>])
        str2 == Concat([i \in DOMAIN str1 |->
                   IF str1[i] = QUOTE THEN <<BACKSLASH, QUOTE>> ELSE <<str1[i]>>])
    IN  <<QUOTE>> \o str2 \o <<QUOTE>>

\* regexp "/|\\" Split(s, n): the pieces between separators, at most n of them,
\* the last one holding the unsplit remainder
SepAt(s) == {i \in DOMAIN s : s[i] \in {"/", BACKSLASH}}
RECURSIVE Split(_, _)
Split(s, n) ==
    IF n = 1 \/ SepAt(s) = {} THEN <<s>>
    ELSE LET i == CHOOSE j \in SepAt(s) : \A k \in SepAt(s) : j <= k
         IN  <<SubSeq(s, 1, i - 1)>> \o Split(SubSeq(s, i + 1, Len(s)), n - 1)

\* strconv.Atoi: optional sign, then one or more decimal digits; on a syntax
\* error the returned number is 0 (the callers drop or only log the error)
AtoiErr(s) ==
    LET body == IF s # <<>> /\ s[1] \in {"+", "-"} THEN Tail(s) ELSE s
    IN  body = <<>> \/ \E i \in DOMAIN body : body[i] \notin Digits
RECURSIVE DigitsValue(_)
DigitsValue(d) ==
    IF d = <<>> THEN 0 ELSE 10 * DigitsValue(SubSeq(d, 1, Len(d) - 1)) + DigitVal[d[Len(d)]]
Atoi(s) ==
    IF AtoiErr(s) THEN 0
    ELSE IF s[1] = "-" THEN 0 - DigitsValue(Tail(s))
    ELSE IF s[1] = "+" THEN DigitsValue(Tail(s))
    ELSE DigitsValue(s)

\* inList: is x in the slice l
inList(x, l) == \E i \in DOMAIN l : l[i] = x

getBorn(p) ==
    IF Len(p.Birthday) > YearLen THEN Atoi(Slice(p.Birthday, YearLen)) ELSE 0
getDied(p) ==
    IF Len(p.Deathday) > YearLen THEN Atoi(Slice(p.Deathday, YearLen)) ELSE 0

\* makeCharsString of cineasts-cypher.go: the quoted, trimmed pieces joined by ","
makeCharsString(char) ==
    LET pieces == Split(char, SplitLimit)
    IN  Join([i \in DOMAIN pieces |-> quotes(TrimSpace(pieces[i]))], <<",">>)

\* makeCharsString of cineasts-csv.go: the trimmed pieces joined by ":"
makeCharsStringCsv(char) ==
    LET pieces == Split(char, SplitLimit)
    IN  Join([i \in DOMAIN pieces |-> TrimSpace(pieces[i])], <<":">>)

----------------------------------------------------------------------------
(* The file cache and the three API calls.  A response body is the record   *)
(* its JSON decodes to; json.Unmarshal is the projection of that record on  *)
(* the struct's fields.                                                     *)

apikey == "KEY"
Host == "api.themoviedb.org"

\* the URLs, as sequences of tokens
personURL(id) ==
    <<"http:", "/", "/", Host, "/", "3", "/", "person", "/", ToString(id),
      "?api_key=", apikey>>
movieURL(id) ==
    <<"http:", "/", "/", Host, "/", "3", "/", "movie", "/", ToString(id),
      "?api_key=", apikey, "&append_to_response=casts">>
discoverURL(n) ==
    <<"http:", "/", "/", Host, "/", "3", "/", "discover", "/", "movie", "?page=",
      ToString(n), "&api_key=", apikey, "&&vote_count.gte=", "10">>

\* every "/" and every occurrence of the API key becomes "_"
getFileSafe(s) == [i \in DOMAIN s |-> IF s[i] \in {"/", apikey} THEN "_" ELSE s[i]]

NoBody == [none |-> TRUE]

\* getCacheOrRequest(url) on the cache directory c, when the network would
\* answer net: the body returned, the cache directory afterwards and the
\* number of HTTP requests made
getCacheOrRequestNoWrite(c, url, net) ==
    IF getFileSafe(url) \in DOMAIN c
    THEN [body |-> c[getFileSafe(url)], cache |-> c, calls |-> 0]
    ELSE [body |-> net, cache |-> c, calls |-> 1]
getCacheOrRequest(c, url, net) ==
    IF getFileSafe(url) \in DOMAIN c
    THEN [body |-> c[getFileSafe(url)], cache |-> c, calls |-> 0]
    ELSE [body |-> net, cache |-> (getFileSafe(url) :> net) @@ c, calls |-> 1]

Cached(c, url) == getFileSafe(url) \in DOMAIN c

\* the sequence of getPerson calls: the cache and request count after them
RECURSIVE FetchPersons(_, _, _)
FetchPersons(c, ids, pnet) ==
    IF ids = <<>> THEN [cache |-> c, calls |-> 0]
    ELSE LET r    == getCacheOrRequest(c, personURL(Head(ids)),
                        IF Head(ids) \in DOMAIN pnet THEN pnet[Head(ids)] ELSE NoBody)
             rest == FetchPersons(r.cache, Tail(ids), pnet)
         IN  [cache |-> rest.cache, calls |-> r.calls + rest.calls]

\* getPerson(id) once the calls before it have filled the cache
getPerson(c, id, pnet) ==
    getCacheOrRequest(c, personURL(id),
        IF id \in DOMAIN pnet THEN pnet[id] ELSE NoBody).body

----------------------------------------------------------------------------
(* The print functions.  P maps a person id to the PersonType getPerson     *)
(* returns for it.                                                          *)

\* the condition guarding a cast entry in all three cast loops
eligible(actor, a) ==
    /\ Len(actor.Name) > 0
    /\ Len(actor.Birthday) > YearLen
    /\ Len(Trim(safe(a.Name), {"_"})) > 0

IsDirector(d) == d.Job = "Director"

printMovieCSVLongDate(mv) ==
    IF Len(mv.ReleaseDate) <= YearLen THEN <<>>
    ELSE << [movieId |-> mv.Id, releaseYear |-> Atoi(Slice(mv.ReleaseDate, YearLen))] >>
printMovieCSV(mv) ==
    IF Len(mv.ReleaseDate) < YearLen THEN <<>>
    ELSE << [movieId |-> mv.Id, releaseYear |-> Atoi(Slice(mv.ReleaseDate, YearLen))] >>

personRecord(p) ==
    [personId |-> p.Id, name |-> p.Name, birthYear |-> getBorn(p), deathYear |-> getDied(p)]

\* one pass of a people loop: acc is [rows, pm], the rows written so far
\* and the ids marked in personMap
WriteAlways(acc, p) ==
    [rows |-> Append(acc.rows, personRecord(p)), pm |-> acc.pm \cup {p.Id}]
WriteOnce(acc, p) ==
    IF p.Id \notin acc.pm
    THEN [rows |-> Append(acc.rows, personRecord(p)), pm |-> acc.pm \cup {p.Id}]
    ELSE acc

RECURSIVE PeopleCastLoop(_, _, _)
PeopleCastLoop(cast, P, acc) ==
    IF cast = <<>> THEN acc
    ELSE PeopleCastLoop(Tail(cast), P,
            IF eligible(P[Head(cast).Id], Head(cast))
            THEN WriteOnce(acc, P[Head(cast).Id]) ELSE acc)

RECURSIVE PeopleCrewLoop(_, _, _)
PeopleCrewLoop(crew, P, acc) ==
    IF crew = <<>> THEN acc
    ELSE PeopleCrewLoop(Tail(crew), P,
            IF IsDirector(Head(crew)) THEN WriteOnce(acc, P[Head(crew).Id]) ELSE acc)

\* printPeopleCSV: the rows appended to people.csv and personMap afterwards
printPeopleCSV(mv, P, pm) ==
    IF Len(mv.ReleaseDate) < YearLen THEN [rows |-> <<>>, pm |-> pm]
    ELSE PeopleCrewLoop(mv.Casts.Crew, P,
            PeopleCastLoop(mv.Casts.Cast, P, [rows |-> <<>>, pm |-> pm]))

RECURSIVE ActorsLoop(_, _, _)
ActorsLoop(cast, P, mid) ==
    IF cast = <<>> THEN <<>>
    ELSE (IF eligible(P[Head(cast).Id], Head(cast))
          THEN << [personId |-> P[Head(cast).Id].Id, movieId |-> mid,
                   characters |-> makeCharsStringCsv(Head(cast).Character)] >>
          ELSE <<>>) \o ActorsLoop(Tail(cast), P, mid)

\* rows for the persons not yet in the set seen
RECURSIVE ActorsLoopSeen(_, _, _, _)
ActorsLoopSeen(cast, P, mid, seen) ==
    IF cast = <<>> THEN <<>>
    ELSE (IF eligible(P[Head(cast).Id], Head(cast)) /\ Head(cast).Id \notin seen
          THEN << [personId |-> P[Head(cast).Id].Id, movieId |-> mid,
                   characters |-> makeCharsStringCsv(Head(cast).Character)] >>
          ELSE <<>>) \o ActorsLoopSeen(Tail(cast), P, mid, seen \cup {Head(cast).Id})
printActorsCSVSeen(mv, P) ==
    IF Len(mv.ReleaseDate) < YearLen THEN <<>>
    ELSE ActorsLoopSeen(mv.Casts.Cast, P, mv.Id, {})

printActorsCSV(mv, P) ==
    IF Len(mv.ReleaseDate) < YearLen THEN <<>>
    ELSE ActorsLoop(mv.Casts.Cast, P, mv.Id)

RECURSIVE DirectorsLoop(_, _, _)
DirectorsLoop(crew, P, mid) ==
    IF crew = <<>> THEN <<>>
    ELSE (IF IsDirector(Head(crew))
          THEN << [personId |-> P[Head(crew).Id].Id, movieId |-> mid] >>
          ELSE <<>>) \o DirectorsLoop(Tail(crew), P, mid)

printDirectorsCSV(mv, P) ==
    IF Len(mv.ReleaseDate) < YearLen THEN <<>>
    ELSE DirectorsLoop(mv.Casts.Crew, P, mv.Id)

\* a printed statement: op names the statement form, var the node variable it
\* uses, arg its literal.  id is printed only by the two MERGE forms; on the
\* other forms it records which person's loop pass printed the line.
Stmt(op, var, id, lit) == [op |-> op, var |-> var, id |-> id, arg |-> lit]

BornDied(p) ==
    (IF getBorn(p) > 0 THEN <<Stmt("SET_BORN", safe(p.Name), p.Id, getBorn(p))>> ELSE <<>>)
    \o (IF getDied(p) > 0 THEN <<Stmt("SET_DIED", safe(p.Name), p.Id, getDied(p))>> ELSE <<>>)

\* one pass of the cast loop: acc is [out, actors]
CastPass(acc, a, actor) ==
    IF ~eligible(actor, a) THEN acc
    ELSE IF ~inList(actor.Id, acc.actors)
    THEN [out |-> acc.out
                  \o <<Stmt("MERGE_PERSON", safe(actor.Name), actor.Id, quotes(actor.Name))>>
                  \o BornDied(actor)
                  \o <<Stmt("SET_ACTOR", safe(actor.Name), actor.Id, <<>>),
                       Stmt("CREATE_ACTS_IN", safe(actor.Name), actor.Id, <<>>),
                       Stmt("SET_ROLES", safe(actor.Name), actor.Id,
                            makeCharsString(a.Character))>>,
          actors |-> Append(acc.actors, actor.Id)]
    ELSE [out |-> Append(acc.out, Stmt("MERGE_ROLES", safe(actor.Name), actor.Id,
                                       makeCharsString(a.Character))),
          actors |-> acc.actors]

\* one pass of the crew loop, re-declaring the person whatever the list holds
CrewPassRedeclare(acc, d, director) ==
    IF ~IsDirector(d) \/ Len(Trim(safe(d.Name), {"_"})) = 0 THEN acc
    ELSE [out |-> acc.out
                  \o <<Stmt("MERGE_PERSON", safe(director.Name), director.Id,
                            quotes(director.Name))>>
                  \o BornDied(director)
                  \o <<Stmt("SET_DIRECTOR", safe(director.Name), director.Id, <<>>),
                       Stmt("CREATE_DIRECTED", safe(director.Name), director.Id, <<>>)>>,
          actors |-> Append(acc.actors, d.Id)]

\* one pass of the crew loop
CrewPass(acc, d, director) ==
    IF ~IsDirector(d) \/ Len(Trim(safe(d.Name), {"_"})) = 0 THEN acc
    ELSE [out |-> acc.out
                  \o (IF ~inList(d.Id, acc.actors)
                      THEN <<Stmt("MERGE_PERSON", safe(director.Name), director.Id,
                                  quotes(director.Name))>>
                           \o BornDied(director)
                      ELSE <<>>)
                  \o <<Stmt("SET_DIRECTOR", safe(director.Name), director.Id, <<>>),
                       Stmt("CREATE_DIRECTED", safe(director.Name), director.Id, <<>>)>>,
          actors |-> IF ~inList(d.Id, acc.actors) THEN Append(acc.actors, d.Id)
                     ELSE acc.actors]

RECURSIVE CastLoop(_, _, _)
CastLoop(cast, P, acc) ==
    IF cast = <<>> THEN acc
    ELSE CastLoop(Tail(cast), P, CastPass(acc, Head(cast), P[Head(cast).Id]))

RECURSIVE CrewLoop(_, _, _)
CrewLoop(crew, P, acc) ==
    IF crew = <<>> THEN acc
    ELSE CrewLoop(Tail(crew), P,
            IF IsDirector(Head(crew))
            THEN CrewPass(acc, Head(crew), P[Head(crew).Id]) ELSE acc)

\* printMovieCypher: the statements printed for one movie
printMovieCypher(mv, P) ==
    IF Len(mv.ReleaseDate) < YearLen THEN <<>>
    ELSE <<Stmt("MERGE_MOVIE", <<"m","o","v","i","e">>, mv.Id,
                Atoi(Slice(mv.ReleaseDate, YearLen)))>>
         \o CrewLoop(mv.Casts.Crew, P,
               CastLoop(mv.Casts.Cast, P, [out |-> <<>>, actors |-> <<>>])).out
         \o <<Stmt("RETURN", <<>>, mv.Id, <<>>)>>

----------------------------------------------------------------------------
(* discoverMovies *)

\* the test guarding the print calls in the range loop
hasCastOrCrew(mv) == Len(mv.Casts.Cast) > 0 \/ Len(mv.Casts.Crew) > 0
hasCastAndCrew(mv) == Len(mv.Casts.Cast) > 0 /\ Len(mv.Casts.Crew) > 0

IdOf(e) == e.Id
IdsOf(s) == [i \in DOMAIN s |-> IdOf(s[i])]

\* the person ids passed to getPerson while one movie is printed, in any order
PersonCalls(mv) ==
    IF ~hasCastAndCrew(mv) \/ Len(mv.ReleaseDate) < YearLen THEN <<>>
    ELSE IdsOf(mv.Casts.Cast) \o IdsOf(SelectSeq(mv.Casts.Crew, IsDirector))

Outputs == [stdout |-> stdout, movies |-> moviesCsv, people |-> peopleCsv,
            actors |-> actorsCsv, directors |-> directorsCsv]

\* entry of discoverMovies(pageNum): the discover page is fetched and decoded.
\* RL is the set of result lists the remote API may answer with.
DiscoverPage(RL) ==
    /\ pc = "call"
    /\ \E net \in IF Cached(cache, discoverURL(pageNum)) THEN {NoBody}
                  ELSE {[Page |-> pageNum, Results |-> r, TotalPages |-> totalPages] :
                            r \in RL} :
         LET r == getCacheOrRequest(cache, discoverURL(pageNum), net)
         IN  /\ page' = r.body
             /\ cache' = r.cache
             /\ netCalls' = netCalls + r.calls
    /\ requested' = Append(requested, pageNum)
    /\ idx' = 1
    /\ pc' = "loop"
    /\ UNCHANGED <<variant, startPage, totalPages, run, pageNum, processed, personMap,
                   moviesCsv, peopleCsv, actorsCsv, directorsCsv, stdout, firstOut,
                   arg, ret>>

\* one pass of the range loop: getMovie, the test on cast and crew, the print
\* calls.  MB and PB are the movie and person bodies the remote API may answer with.
ProcessMovie(MB, PB) ==
    /\ pc = "loop"
    /\ idx <= Len(page.Results)
    /\ LET id == page.Results[idx].Id
       IN  \E mnet \in IF Cached(cache, movieURL(id)) THEN {NoBody}
                       ELSE {b \in MB : b.Id = id} :
             LET r    == getCacheOrRequest(cache, movieURL(id), mnet)
                 mv   == r.body
                 ids  == PersonCalls(mv)
                 need == {i \in Range(ids) : ~Cached(r.cache, personURL(i))}
             IN  \E pnet \in {f \in [need -> PB] : \A i \in need : f[i].Id = i} :
                   LET fr == FetchPersons(r.cache, ids, pnet)
                       P  == [i \in Range(ids) |-> getPerson(fr.cache, i, pnet)]
                       pp == printPeopleCSV(mv, P, personMap)
                       show == hasCastAndCrew(mv)
                   IN  /\ cache' = fr.cache
                       /\ netCalls' = netCalls + r.calls + fr.calls
                       /\ processed' = Append(processed, mv)
                       /\ IF variant = "csv" /\ show
                          THEN /\ moviesCsv' = moviesCsv \o printMovieCSV(mv)
                               /\ peopleCsv' = peopleCsv \o pp.rows
                               /\ personMap' = pp.pm
                               /\ actorsCsv' = actorsCsv \o printActorsCSV(mv, P)
                               /\ directorsCsv' = directorsCsv \o printDirectorsCSV(mv, P)
                          ELSE UNCHANGED <<moviesCsv, peopleCsv, personMap, actorsCsv,
                                           directorsCsv>>
                       /\ IF variant = "cypher" /\ show
                          THEN stdout' = stdout \o printMovieCypher(mv, P)
                          ELSE UNCHANGED stdout
    /\ idx' = idx + 1
    /\ UNCHANGED <<variant, startPage, totalPages, run, pc, pageNum, page, requested,
                   firstOut, arg, ret>>

\* the test after the loop: more pages
morePagesInclusive(n, total) == n <= total
morePages(n, total) == n < total

\* the loop is over and pageNum < page.TotalPages: discoverMovies(pageNum + 1)
Recurse ==
    /\ pc = "loop"
    /\ idx > Len(page.Results)
    /\ morePages(pageNum, page.TotalPages)
    /\ pageNum' = pageNum + 1
    /\ pc' = "call"
    /\ UNCHANGED <<variant, startPage, totalPages, run, page, idx, requested, processed,
                   cache, netCalls, personMap, moviesCsv, peopleCsv, actorsCsv,
                   directorsCsv, stdout, firstOut, arg, ret>>

\* the loop is over and there is no further page: every frame returns to main
Return ==
    /\ pc = "loop"
    /\ idx > Len(page.Results)
    /\ ~morePages(pageNum, page.TotalPages)
    /\ pc' = "done"
    /\ UNCHANGED <<variant, startPage, totalPages, run, pageNum, page, idx, requested,
                   processed, cache, netCalls, personMap, moviesCsv, peopleCsv,
                   actorsCsv, directorsCsv, stdout, firstOut, arg, ret>>

\* the program is started again in the directory the first run left: a new
\* process (empty personMap, truncated output files) on the same cache files
SecondRun ==
    /\ pc = "done"
    /\ run = 1
    /\ run' = 2
    /\ firstOut' = Outputs
    /\ pc' = "call"
    /\ pageNum' = startPage
    /\ page' = NoBody
    /\ idx' = 1
    /\ requested' = <<>>
    /\ processed' = <<>>
    /\ netCalls' = 0
    /\ personMap' = {}
    /\ moviesCsv' = <<>> /\ peopleCsv' = <<>> /\ actorsCsv' = <<>> /\ directorsCsv' = <<>>
    /\ stdout' = <<>>
    /\ UNCHANGED <<variant, startPage, totalPages, cache, arg, ret>>

----------------------------------------------------------------------------
(* What the remote API may answer with *)

PersonIds == {1, 2}
MovieIds == {1, 2}

ListedName == (1 :> <<"A","l">>) @@ (2 :> <<"O","'","B">>)

Born == <<"1","9","5","0","-","0","1">>
Died == <<"2","0","0","1","-","0","1">>

PersonBody(i, name, birthday, deathday) ==
    [Id |-> i, Name |-> name, Birthday |-> birthday, Deathday |-> deathday]

\* person records of the pipeline: with a birthday, without one
PersonBodies ==
    UNION {{ PersonBody(i, ListedName[i], Born, <<>>),
             PersonBody(i, ListedName[i], <<>>, <<>>) } : i \in PersonIds}

CastEntries ==
    {[Id |-> i, Name |-> ListedName[i], Character |-> <<"a","/","b">>] : i \in PersonIds}
CrewEntries ==
    {[Id |-> i, Name |-> ListedName[i], Job |-> "Director"] : i \in PersonIds}
    \cup {[Id |-> 1, Name |-> ListedName[1], Job |-> "Writer"]}
ReleaseDates == {<<"1","9">>, <<"1","9","9","9">>}

MovieBody(i, d, ca, cr) ==
    [Id |-> i, ReleaseDate |-> d, Casts |-> [Cast |-> ca, Crew |-> cr]]

MovieBodies ==
    {MovieBody(i, d, ca, cr) :
        i \in MovieIds, d \in ReleaseDates,
        ca \in SeqsUpTo(CastEntries, MaxCast), cr \in SeqsUpTo(CrewEntries, MaxCrew)}

\* a discover page lists at most one movie
ResultLists == {<<>>} \cup {<<[Id |-> i]>> : i \in MovieIds}

----------------------------------------------------------------------------
(* The pipeline: main calls discoverMovies(startPage) *)

Start(variants, pages, totals) ==
    /\ variant \in variants
    /\ startPage \in pages
    /\ totalPages \in totals
    /\ run = 1
    /\ pc = "call"
    /\ pageNum = startPage
    /\ page = NoBody
    /\ idx = 1
    /\ requested = <<>>
    /\ processed = <<>>
    /\ cache = <<>>
    /\ netCalls = 0
    /\ personMap = {}
    /\ moviesCsv = <<>> /\ peopleCsv = <<>> /\ actorsCsv = <<>> /\ directorsCsv = <<>>
    /\ stdout = <<>>
    /\ firstOut = NoBody
    /\ arg = NoBody
    /\ ret = NoBody

Init == Start({"cypher", "csv"}, 1..(MaxPages + 1), 0..MaxPages)

Next ==
    \/ DiscoverPage(ResultLists)
    \/ ProcessMovie(MovieBodies, PersonBodies)
    \/ Recurse
    \/ Return

Spec == Init /\ [][Next]_vars

----------------------------------------------------------------------------
(* The pipeline run twice on the same cache directory.  Each movie has one  *)
(* cast entry and one crew entry.                                           *)

RerunMovieBodies ==
    {MovieBody(i, d, <<ca>>, <<cr>>) :
        i \in MovieIds, d \in ReleaseDates, ca \in CastEntries, cr \in CrewEntries}

InitRerun == Start({"cypher", "csv"}, {1}, 1..MaxPages)

NextRerun ==
    \/ DiscoverPage(ResultLists)
    \/ ProcessMovie(RerunMovieBodies, PersonBodies)
    \/ Recurse
    \/ Return
    \/ SecondRun

SpecRerun == InitRerun /\ [][NextRerun]_vars

----------------------------------------------------------------------------
(* One movie of the graph variant, with every kind of person record, two    *)
(* listing names and character fields over a small alphabet.                *)

\* character fields: names separated by "/", none of them blank
CharAlphabet == {"a", "b", "/", " "}
Characters ==
    {c \in SeqsUpTo(CharAlphabet, MaxCharLen) :
        \A k \in DOMAIN Split(c, SplitLimit) : TrimSpace(Split(c, SplitLimit)[k]) # <<>>}

RolesPersonBodies ==
    { PersonBody(1, ListedName[1], Born, Died),
      PersonBody(1, ListedName[1], Born, <<>>),
      PersonBody(1, ListedName[1], <<"1","9","5","0">>, <<>>),
      PersonBody(1, ListedName[1], <<>>, <<>>),
      PersonBody(1, <<>>, Born, <<>>) }

RolesCastEntries ==
    {[Id |-> 1, Name |-> n, Character |-> c] :
        n \in {ListedName[1], <<"4","2">>}, c \in Characters}

RolesMovieBodies ==
    {MovieBody(1, <<"1","9","9","9">>, ca,
               <<[Id |-> 1, Name |-> ca[1].Name, Job |-> "Director"]>>) :
        ca \in {c \in SeqsUpTo(RolesCastEntries, MaxCast) :
                   c # <<>> /\ \A k \in DOMAIN c : c[k].Name = c[1].Name}}

InitRoles == Start({"cypher"}, {1}, {1})

NextRoles ==
    \/ DiscoverPage({<<[Id |-> 1]>>})
    \/ ProcessMovie(RolesMovieBodies, RolesPersonBodies)
    \/ Return

SpecRoles == InitRoles /\ [][NextRoles]_vars

----------------------------------------------------------------------------
(* getBorn and getDied called directly on date strings *)

\* date strings: digits or a stray letter in the year, "-" only after it
DateAlphabet == {"1", "9", "-", "x"}
DateStrings ==
    {s \in SeqsUpTo(DateAlphabet, MaxDateLen) : \A k \in DOMAIN s : s[k] = "-" => k > YearLen}

InitYears ==
    /\ arg \in {[Id |-> 1, Name |-> ListedName[1], Birthday |-> d, Deathday |-> d] :
                    d \in DateStrings}
    /\ ret = NoBody
    /\ pc = "years"
    /\ variant = "cypher" /\ startPage = 1 /\ totalPages = 1 /\ run = 1
    /\ pageNum = 1 /\ page = NoBody /\ idx = 1
    /\ requested = <<>> /\ processed = <<>> /\ cache = <<>> /\ netCalls = 0
    /\ personMap = {}
    /\ moviesCsv = <<>> /\ peopleCsv = <<>> /\ actorsCsv = <<>> /\ directorsCsv = <<>>
    /\ stdout = <<>> /\ firstOut = NoBody

CallGetBorn ==
    /\ pc = "years"
    /\ ret' = [fn |-> "getBorn", year |-> getBorn(arg)]
    /\ pc' = "returned"
    /\ UNCHANGED <<variant, startPage, totalPages, run, pageNum, page, idx, requested,
                   processed, cache, netCalls, personMap, moviesCsv, peopleCsv,
                   actorsCsv, directorsCsv, stdout, firstOut, arg>>

CallGetDied ==
    /\ pc = "years"
    /\ ret' = [fn |-> "getDied", year |-> getDied(arg)]
    /\ pc' = "returned"
    /\ UNCHANGED <<variant, startPage, totalPages, run, pageNum, page, idx, requested,
                   processed, cache, netCalls, personMap, moviesCsv, peopleCsv,
                   actorsCsv, directorsCsv, stdout, firstOut, arg>>

NextYears == CallGetBorn \/ CallGetDied

SpecYears == InitYears /\ [][NextYears]_vars

----------------------------------------------------------------------------
(* Notions the properties are stated with *)

Last(s) == s[Len(s)]

Max(a, b) == IF a >= b THEN a ELSE b

\* the person record the cache holds for id i
CachedPerson(i) == cache[getFileSafe(personURL(i))]

\* a movie that is to produce no output
Excluded(mv) ==
    \/ Len(mv.ReleaseDate) < 4
    \/ mv.Casts.Cast = <<>>
    \/ mv.Casts.Crew = <<>>

\* a step of the range loop has just handled the movie Last(processed')
MovieStep == Len(processed') = Len(processed) + 1

\* positions of the processed movies that were exported
ExportedAt == {k \in DOMAIN processed : ~Excluded(processed[k])}

\* occurrences of person i: <<k, n>> is the n-th cast (crew) entry of the k-th movie
CastOcc(i) ==
    {<<k, n>> \in ExportedAt \X (1..MaxCast) :
        n <= Len(processed[k].Casts.Cast) /\ processed[k].Casts.Cast[n].Id = i}
EligibleCastOcc(i) ==
    {o \in CastOcc(i) : eligible(CachedPerson(i), processed[o[1]].Casts.Cast[o[2]])}
DirectorOcc(i) ==
    {<<k, n>> \in ExportedAt \X (1..MaxCrew) :
        /\ n <= Len(processed[k].Casts.Crew)
        /\ processed[k].Casts.Crew[n].Id = i
        /\ processed[k].Casts.Crew[n].Job = "Director"}

RowsOf(csv, i) == {r \in DOMAIN csv : csv[r].personId = i}

----------------------------------------------------------------------------
(* C1 *)

\* C1, as stated: in the CSV variant every person id that occurs in the cast
\* list or in a Director crew entry of an exported movie has exactly one row
\* in people.csv.
C1_EveryPersonOneRow ==
    variant = "csv" =>
        \A i \in PersonIds :
            (CastOcc(i) # {} \/ DirectorOcc(i) # {}) => Cardinality(RowsOf(peopleCsv, i)) = 1

\* C1, amended: in the CSV variant no person id has more than one row in
\* people.csv, personMap holds exactly the ids written, and an id has a row
\* exactly when it has a cast occurrence passing the eligibility test or a
\* Director crew occurrence in an exported movie.
C1_PeopleRowsUnique ==
    variant = "csv" =>
        /\ \A i \in PersonIds : Cardinality(RowsOf(peopleCsv, i)) <= 1
        /\ personMap = {peopleCsv[r].personId : r \in DOMAIN peopleCsv}
        /\ \A i \in PersonIds :
              (EligibleCastOcc(i) # {} \/ DirectorOcc(i) # {}) <=> RowsOf(peopleCsv, i) # {}

\* a person with occurrences in two exported movies and one row
C1_Witness ==
    /\ variant = "csv"
    /\ \E i \in PersonIds :
          /\ Cardinality(RowsOf(peopleCsv, i)) = 1
          /\ \E o1, o2 \in EligibleCastOcc(i) \cup DirectorOcc(i) : o1[1] # o2[1]

----------------------------------------------------------------------------
(* C2 *)

LabelOps == {"SET_ACTOR", "SET_DIRECTOR"}

PassesPersonTest(p) ==
    /\ Len(p.Name) > 0
    /\ Len(p.Birthday) >= 4
    /\ Len(Trim(safe(p.Name), {"_"})) > 0

\* C2: every person given the Actor or Director label, and every person with
\* a row in people.csv, has a non-empty name, a birth date of at least 4
\* characters and a sanitized name that is not empty.
C2_OnlyEligiblePersons ==
    /\ \A k \in DOMAIN stdout :
          stdout[k].op \in LabelOps => PassesPersonTest(CachedPerson(stdout[k].id))
    /\ \A r \in DOMAIN peopleCsv : PassesPersonTest(CachedPerson(peopleCsv[r].personId))

----------------------------------------------------------------------------
(* C3 *)

\* C3: a step of the range loop that handles a movie with a release date
\* shorter than 4 characters, an empty cast or an empty crew leaves the
\* standard output and the four tables as they were.
C3_ExcludedMovieSilent ==
    [][(MovieStep /\ Excluded(Last(processed'))) => Outputs' = Outputs]_vars

\* an excluded movie has been handled after an exported one
C3_Witness ==
    /\ Len(processed) = 2
    /\ ~Excluded(processed[1])
    /\ Excluded(processed[2])
    /\ processed[2].Casts.Cast # <<>>
    /\ processed[2].Casts.Crew # <<>>

----------------------------------------------------------------------------
(* C4 *)

PageRange(from, to) == [k \in 1..(to - from + 1) |-> from + k - 1]

IsPrefix(s, t) == Len(s) <= Len(t) /\ \A k \in DOMAIN s : s[k] = t[k]

\* C4, as stated: no requested page number is greater than the reported
\* total-page count.
C4_NeverBeyondTotal == \A k \in DOMAIN requested : requested[k] <= totalPages

\* steps the run can still take, at most: every step of the program lowers it
LongestResults == CHOOSE n \in 0..Cardinality(ResultLists) :
                     /\ \E r \in ResultLists : Len(r) = n
                     /\ \A r \in ResultLists : Len(r) <= n
StepsLeft ==
    IF pc = "done" THEN 0
    ELSE (LongestResults + 3) * (Max(startPage, totalPages) - pageNum)
         + (IF pc = "call" THEN LongestResults + 2
            ELSE Len(page.Results) - idx + 2)

\* C4, amended: discoverMovies(p) terminates (every step lowers a natural
\* number); the pages it requests are p, p+1, ... in increasing order up to
\* the reported total-page count, or page p alone when p is greater than that
\* count.
C4_PagesInOrder ==
    /\ [](IsPrefix(requested, PageRange(startPage, Max(startPage, totalPages))))
    /\ [](pc = "done" => requested = PageRange(startPage, Max(startPage, totalPages)))
    /\ [](StepsLeft \in Nat)
    /\ [][StepsLeft' < StepsLeft]_vars

\* a run that has returned after more than one page
C4_Witness == pc = "done" /\ Len(requested) >= 2 /\ Last(requested) = totalPages

----------------------------------------------------------------------------
(* C5 *)

\* the strings of a Cypher list body: "..." literals separated by commas
RECURSIVE ParseString(_, _)
ParseString(t, acc) ==
    IF Head(t) = BACKSLASH THEN ParseString(Tail(Tail(t)), Append(acc, t[2]))
    ELSE IF Head(t) = QUOTE THEN [str |-> acc, rest |-> Tail(t)]
    ELSE ParseString(Tail(t), Append(acc, Head(t)))
RECURSIVE ParseList(_)
ParseList(t) ==
    IF t = <<>> THEN <<>>
    ELSE LET r == ParseString(Tail(t), <<>>)
         IN  <<r.str>> \o (IF r.rest = <<>> THEN <<>> ELSE ParseList(Tail(r.rest)))

\* the roles property of person i's ACTS_IN edge after the statements out
RECURSIVE RolesAfter(_, _, _)
RolesAfter(out, i, roles) ==
    IF out = <<>> THEN roles
    ELSE LET st == Head(out)
             l  == ParseList(st.arg)
             keep(x) == ~inList(x, l)
         IN  RolesAfter(Tail(out), i,
                IF st.id = i /\ st.op = "SET_ROLES" THEN l
                ELSE IF st.id = i /\ st.op = "MERGE_ROLES"
                THEN SelectSeq(roles, keep) \o l
                ELSE roles)

\* the character names of one cast entry
NamesOf(a) ==
    LET pieces == Split(a.Character, SplitLimit)
    IN  {TrimSpace(pieces[k]) : k \in DOMAIN pieces}

NoDuplicates(l) == \A j, k \in DOMAIN l : l[j] = l[k] => j = k

OpCount(op, i) == Cardinality({k \in DOMAIN stdout : stdout[k].op = op /\ stdout[k].id = i})

\* C5: once the movie is printed, a person with two or more cast entries
\* passing the eligibility test has one node declaration and one ACTS_IN
\* edge, and the roles list of that edge holds exactly the character names of
\* those entries, each once.
C5_RolesAreUnion ==
    (pc = "done" /\ processed # <<>>) =>
        LET cast == processed[1].Casts.Cast
            mine == {n \in DOMAIN cast : cast[n].Id = 1 /\ eligible(CachedPerson(1), cast[n])}
            roles == RolesAfter(stdout, 1, <<>>)
        IN  Cardinality(mine) >= 2 =>
                /\ OpCount("MERGE_PERSON", 1) = 1
                /\ OpCount("CREATE_ACTS_IN", 1) = 1
                /\ Range(roles) = UNION {NamesOf(cast[n]) : n \in mine}
                /\ NoDuplicates(roles)

----------------------------------------------------------------------------
(* C6 *)

\* C6: the second run performs no HTTP request, and when it has finished its
\* output is the output of the first run.
C6_SecondRunFromCache ==
    run = 2 => /\ netCalls = 0
               /\ pc = "done" => Outputs = firstOut

\* a second run has finished and has printed or written something
C6_Witness ==
    /\ run = 2
    /\ pc = "done"
    /\ Len(processed) >= 2
    /\ (stdout # <<>> \/ peopleCsv # <<>>)

----------------------------------------------------------------------------
(* C7 *)

PairRows(csv, i, k) == {r \in DOMAIN csv : csv[r].personId = i /\ csv[r].movieId = k}

\* C7, as stated: actors.csv has one row for each cast entry of each
\* exported movie, directors.csv one row for each Director crew entry.
C7_RowPerCastEntry ==
    variant = "csv" =>
        /\ \A i \in PersonIds : Cardinality(RowsOf(actorsCsv, i)) = Cardinality(CastOcc(i))
        /\ \A i \in PersonIds : Cardinality(RowsOf(directorsCsv, i)) = Cardinality(DirectorOcc(i))

\* C7, amended: actors.csv has one row for each cast entry of each exported
\* movie that passes the eligibility test, directors.csv one row for each
\* Director crew entry, whatever personMap holds; the rows of a person in a
\* movie are as many as the person's such entries in the listings of that
\* movie.
C7_RowPerEligibleCastEntry ==
    variant = "csv" =>
        \A i \in PersonIds :
            /\ Cardinality(RowsOf(actorsCsv, i)) = Cardinality(EligibleCastOcc(i))
            /\ Cardinality(RowsOf(directorsCsv, i)) = Cardinality(DirectorOcc(i))
            /\ \A k \in MovieIds :
                  /\ Cardinality(PairRows(actorsCsv, i, k)) =
                        Cardinality({o \in EligibleCastOcc(i) : processed[o[1]].Id = k})
                  /\ Cardinality(PairRows(directorsCsv, i, k)) =
                        Cardinality({o \in DirectorOcc(i) : processed[o[1]].Id = k})

\* a person already in personMap has actor rows for two movies and two rows for one
C7_Witness ==
    /\ variant = "csv"
    /\ \E i \in personMap :
          /\ \E r1, r2 \in RowsOf(actorsCsv, i) : actorsCsv[r1].movieId # actorsCsv[r2].movieId
          /\ \E k \in MovieIds : Cardinality(PairRows(actorsCsv, i, k)) >= 2

----------------------------------------------------------------------------
(* C8 *)

\* C8: getBorn and getDied return the number strconv.Atoi gives for the
\* first 4 characters of a date field of at least 4 characters (0 when they
\* are not a number), and 0 for a shorter field.
C8_YearOfFirstFour ==
    pc = "returned" =>
        LET field == IF ret.fn = "getBorn" THEN arg.Birthday ELSE arg.Deathday
        IN  ret.year = IF Len(field) >= 4 THEN Atoi(SubSeq(field, 1, 4)) ELSE 0

----------------------------------------------------------------------------
(* C9 *)

CastOps == {"SET_ACTOR", "CREATE_ACTS_IN", "SET_ROLES", "MERGE_ROLES"}
CrewOps == {"SET_DIRECTOR", "CREATE_DIRECTED"}
NodeOps == {"SET_BORN", "SET_DIED", "SET_ACTOR", "CREATE_ACTS_IN", "SET_DIRECTOR",
            "CREATE_DIRECTED"}
EdgeOps == {"SET_ROLES", "MERGE_ROLES"}

\* positions j < k of the standard output lie in the same movie's unit
SameUnit(j, k) == j < k /\ \A n \in j..(k - 1) : stdout[n].op # "RETURN"

\* the movie record whose unit holds position k
MovieOfUnit(k) ==
    LET start == CHOOSE j \in 1..k :
                    stdout[j].op = "MERGE_MOVIE" /\ (j = k \/ SameUnit(j, k))
    IN  cache[getFileSafe(movieURL(stdout[start].id))]

----------------------------------------------------------------------------
(* C10 *)

\* C10: every personId in actors.csv or directors.csv has a row in
\* people.csv, and every movieId in them has a row in movies.csv.
C10_JoinRowsResolve ==
    \A csv \in {actorsCsv, directorsCsv} :
        \A r \in DOMAIN csv :
            /\ \E q \in DOMAIN peopleCsv : peopleCsv[q].personId = csv[r].personId
            /\ \E q \in DOMAIN moviesCsv : moviesCsv[q].movieId = csv[r].movieId

\* both join tables have rows, one of them for a director who is in no cast
C10_Witness ==
    /\ actorsCsv # <<>>
    /\ \E r \in DOMAIN directorsCsv :
          \A q \in DOMAIN actorsCsv : actorsCsv[q].personId # directorsCsv[r].personId

====
